---- MODULE Spec2Model ----
(***************************************************************************)
(* A model of tools/locbench_sweagent:                                     *)
(*   parse_trajectories.py  trajectories -> Loc-Bench localization outputs *)
(*   prepare_instances.py   Loc-Bench dataset -> SWE-agent instances       *)
(*                                                                         *)
(* A Python str is a sequence of one-character strings.  A JSON value (and *)
(* the Python object json.loads gives for it) is a record tagged by t:     *)
(*   None, JBool(b), JNum(digits), JStr(chars), JArr(seq of values),       *)
(*   JObj(function from key chars to value).                               *)
(***************************************************************************)
EXTENDS Integers, Sequences, FiniteSets, TLC

VARIABLES
    \* extract_json_payload: its argument and the pair it returned
    text, extracted,
    \* normalize_list: its argument and the results of successive calls
    value, normalized,
    \* entities_to_modules: its argument and its result
    entity_list, modules,
    \* parse_trajectories.main
    bench_data, dir_files, traj_files, file_idx, trajectory, payload,
    raw_response, selected, missing_payload, out_lines, traj_pc,
    \* prepare_instances.main
    dataset, filter, limit, skip_missing, existing_dirs, rec_idx,
    missing_repos, count, instances, exit_code, prep_pc

extract_vars == <<text, extracted>>
normalize_vars == <<value, normalized>>
modules_vars == <<entity_list, modules>>
traj_vars == <<bench_data, dir_files, traj_files, file_idx, trajectory, payload,
               raw_response, selected, missing_payload, out_lines, traj_pc>>
prep_vars == <<dataset, filter, limit, skip_missing, existing_dirs, rec_idx,
               missing_repos, count, instances, exit_code, prep_pc>>
vars == <<extract_vars, normalize_vars, modules_vars, traj_vars, prep_vars>>

(***************************************************************************)
(* Python values                                                           *)
(***************************************************************************)
None == [t |-> "none"]
JBool(b) == [t |-> "bool", b |-> b]
JNum(n) == [t |-> "num", n |-> n]
JStr(s) == [t |-> "str", s |-> s]
JArr(a) == [t |-> "arr", a |-> a]
JObj(o) == [t |-> "obj", o |-> o]

\* bool(v) of a JSON-born value: None, False, 0, "", [] and {} are falsy
Truthy(v) ==
    CASE v.t = "none" -> FALSE
      [] v.t = "bool" -> v.b
      [] v.t = "num" -> \E i \in 1..Len(v.n) : v.n[i] # "0"
      [] v.t = "str" -> v.s # <<>>
      [] v.t = "arr" -> v.a # <<>>
      [] v.t = "obj" -> DOMAIN v.o # {}

\* dict.get(key), with None for a missing key
Get(obj, key) == IF key \in DOMAIN obj.o THEN obj.o[key] ELSE None

(***************************************************************************)
(* str methods                                                             *)
(***************************************************************************)
\* the characters of the model's alphabet that str.strip(), the regex \s and
\* the JSON grammar all take for whitespace
Whitespace == {" ", "\n"}

\* the least index >= i of s at which P fails to hold of the character, or
\* Len(s) + 1
RECURSIVE SkipWhile(_, _, _)
SkipWhile(s, i, chars) ==
    IF i <= Len(s) /\ s[i] \in chars THEN SkipWhile(s, i + 1, chars) ELSE i

\* the greatest index <= i of s holding a character outside chars, or 0
RECURSIVE SkipBack(_, _, _)
SkipBack(s, i, chars) ==
    IF i >= 1 /\ s[i] \in chars THEN SkipBack(s, i - 1, chars) ELSE i

\* s.strip()
strip(s) ==
    LET a == SkipWhile(s, 1, Whitespace)
        b == SkipBack(s, Len(s), Whitespace)
    IN  IF a > b THEN <<>> ELSE SubSeq(s, a, b)

\* s.find(c) + 1: the index of the first c in s at or after i, 0 if none
RECURSIVE find(_, _, _)
find(s, c, i) ==
    IF i > Len(s) THEN 0
    ELSE IF s[i] = c THEN i
    ELSE find(s, c, i + 1)

\* c in s
Contains(s, c) == find(s, c, 1) # 0

\* s.split(c, 1)[0] and s.split(c)[0]: the text before the first c, all of s
\* when it holds none
split_head(s, c) ==
    LET i == find(s, c, 1)
    IN  IF i = 0 THEN s ELSE SubSeq(s, 1, i - 1)

\* s.split(c, 1)[1], for s holding c: the text after the first c
split_tail(s, c) == SubSeq(s, find(s, c, 1) + 1, Len(s))

\* s.replace(old, new) for single characters
replace(s, old, new) == [i \in 1..Len(s) |-> IF s[i] = old THEN new ELSE s[i]]

\* whether s[i..] starts with the characters of p
StartsWith(s, i, p) ==
    /\ i + Len(p) - 1 <= Len(s)
    /\ \A k \in 1..Len(p) : s[i + k - 1] = p[k]

(***************************************************************************)
(* json.loads, on texts over an alphabet without backslash, sign, fraction *)
(* or exponent characters                                                  *)
(***************************************************************************)
Digits == {"0", "1", "2", "3", "4", "5", "6", "7", "8", "9"}
ParseFail == [ok |-> FALSE, val |-> None, end |-> 0]
Parsed(v, e) == [ok |-> TRUE, val |-> v, end |-> e]

\* json.decoder.scanstring from the index after the opening quote: the
\* string ends at the next quote; strict mode rejects a control character
scanstring(s, begin) ==
    LET q == find(s, "\"", begin)
    IN  IF q = 0 \/ \E k \in begin..(q - 1) : s[k] = "\n"
        THEN ParseFail
        ELSE Parsed(JStr(SubSeq(s, begin, q - 1)), q + 1)

\* NUMBER_RE.match at idx: 0 alone, or a run of digits not starting with 0
scannumber(s, idx) ==
    LET e == IF s[idx] = "0" THEN idx + 1 ELSE SkipWhile(s, idx, Digits)
    IN  Parsed(JNum(SubSeq(s, idx, e - 1)), e)

RECURSIVE scan_once(_, _)
RECURSIVE JSONArrayItems(_, _, _)
RECURSIVE JSONObjectMembers(_, _, _)

\* json.decoder.JSONArray after the opening bracket
JSONArray(s, idx) ==
    LET i == SkipWhile(s, idx, Whitespace)
    IN  IF i <= Len(s) /\ s[i] = "]"
        THEN Parsed(JArr(<<>>), i + 1)
        ELSE JSONArrayItems(s, i, <<>>)

JSONArrayItems(s, i, acc) ==
    LET r == scan_once(s, i)
        j == SkipWhile(s, r.end, Whitespace)
    IN  IF ~r.ok \/ j > Len(s) THEN ParseFail
        ELSE IF s[j] = "]" THEN Parsed(JArr(Append(acc, r.val)), j + 1)
        ELSE IF s[j] = ","
             THEN JSONArrayItems(s, SkipWhile(s, j + 1, Whitespace), Append(acc, r.val))
        ELSE ParseFail

\* json.decoder.JSONObject after the opening brace; a repeated key keeps
\* its last value
JSONObject(s, idx) ==
    LET i == SkipWhile(s, idx, Whitespace)
    IN  IF i <= Len(s) /\ s[i] = "}"
        THEN Parsed(JObj(<<>>), i + 1)
        ELSE JSONObjectMembers(s, i, <<>>)

JSONObjectMembers(s, i, acc) ==
    IF i > Len(s) \/ s[i] # "\"" THEN ParseFail
    ELSE
    LET k == scanstring(s, i + 1)
        c == SkipWhile(s, k.end, Whitespace)
    IN  IF ~k.ok \/ c > Len(s) \/ s[c] # ":" THEN ParseFail
        ELSE
        LET r == scan_once(s, SkipWhile(s, c + 1, Whitespace))
            j == SkipWhile(s, r.end, Whitespace)
            obj == (k.val.s :> r.val) @@ acc
        IN  IF ~r.ok \/ j > Len(s) THEN ParseFail
            ELSE IF s[j] = "}" THEN Parsed(JObj(obj), j + 1)
            ELSE IF s[j] = ","
                 THEN JSONObjectMembers(s, SkipWhile(s, j + 1, Whitespace), obj)
            ELSE ParseFail

\* json.scanner: one value starting at idx
scan_once(s, idx) ==
    IF idx > Len(s) THEN ParseFail
    ELSE IF s[idx] = "\"" THEN scanstring(s, idx + 1)
    ELSE IF s[idx] = "{" THEN JSONObject(s, idx + 1)
    ELSE IF s[idx] = "[" THEN JSONArray(s, idx + 1)
    ELSE IF StartsWith(s, idx, <<"n", "u", "l", "l">>) THEN Parsed(None, idx + 4)
    ELSE IF StartsWith(s, idx, <<"t", "r", "u", "e">>) THEN Parsed(JBool(TRUE), idx + 4)
    ELSE IF StartsWith(s, idx, <<"f", "a", "l", "s", "e">>) THEN Parsed(JBool(FALSE), idx + 5)
    ELSE IF s[idx] \in Digits THEN scannumber(s, idx)
    ELSE ParseFail

\* json.loads(s): one value with only whitespace around it, else
\* JSONDecodeError (ok = FALSE)
loads(s) ==
    LET r == scan_once(s, SkipWhile(s, 1, Whitespace))
    IN  IF r.ok /\ SkipWhile(s, r.end, Whitespace) = Len(s) + 1 THEN r ELSE ParseFail

(***************************************************************************)
(* parse_trajectories.py: the payload extractor                            *)
(***************************************************************************)
\* the backquote character (a string literal cannot hold it)
Backquote == "backquote"
Fence == <<Backquote, Backquote, Backquote>>

\* re.IGNORECASE on the letters of the tag
Lower(c) ==
    CASE c = "J" -> "j"
      [] c = "S" -> "s"
      [] c = "O" -> "o"
      [] c = "N" -> "n"
      [] OTHER -> c

\* the index of the first fence starting at or after i, 0 if none
RECURSIVE NextFence(_, _)
NextFence(s, i) ==
    IF i + 2 > Len(s) THEN 0
    ELSE IF StartsWith(s, i, Fence) THEN i
    ELSE NextFence(s, i + 1)

\* (?:json)? at i: the index after the tag when it is there, else i
TagEnd(s, i) ==
    IF i + 3 <= Len(s) /\ \A k \in 1..4 : Lower(s[i + k - 1]) = <<"j", "s", "o", "n">>[k]
    THEN i + 4
    ELSE i

\* [m.group(1) for m in JSON_CODE_BLOCK_RE.finditer(text)] from position
\* pos: the leftmost fence opens, the optional tag and the whitespace after
\* it are consumed greedily, (.*?) runs to the next fence, and the search
\* resumes after that closing fence
RECURSIVE JSON_CODE_BLOCK_RE(_, _)
JSON_CODE_BLOCK_RE(s, pos) ==
    LET open == NextFence(s, pos)
        begin == SkipWhile(s, TagEnd(s, open + 3), Whitespace)
        close == NextFence(s, begin)
    IN  IF open = 0 \/ close = 0 THEN <<>>
        ELSE <<SubSeq(s, begin, close - 1)>> \o JSON_CODE_BLOCK_RE(s, close + 3)

\* lines 55-58: the stripped, non-empty inner texts of the fenced regions
RECURSIVE StrippedNonEmpty(_)
StrippedNonEmpty(groups) ==
    IF groups = <<>> THEN <<>>
    ELSE LET candidate == strip(Head(groups))
         IN  (IF candidate # <<>> THEN <<candidate>> ELSE <<>>)
                 \o StrippedNonEmpty(Tail(groups))

try_load_json(candidate) ==
    LET r == loads(candidate)
    IN  IF r.ok /\ r.val.t = "obj" THEN r.val ELSE None

\* the inner loop of _iter_json_substrings without its depth counter: the
\* candidate ends at the first '}' after the start
BalancedEnd_NoDepth(s, idx, depth) ==
    LET ends == {k \in idx..Len(s) : s[k] = "}"}
    IN  IF ends = {} THEN 0 ELSE CHOOSE k \in ends : \A j \in ends : k <= j

\* the index at which the depth, `depth` before idx, returns to zero; 0 if
\* it never does
RECURSIVE BalancedEnd(_, _, _)
BalancedEnd(s, idx, depth) ==
    IF idx > Len(s) THEN 0
    ELSE IF s[idx] = "{" THEN BalancedEnd(s, idx + 1, depth + 1)
    ELSE IF s[idx] = "}"
         THEN IF depth - 1 = 0 THEN idx ELSE BalancedEnd(s, idx + 1, depth - 1)
    ELSE BalancedEnd(s, idx + 1, depth)

\* list(_iter_json_substrings(text)), for the starts at or after `start`
RECURSIVE iter_json_substrings(_, _)
iter_json_substrings(s, start) ==
    IF start > Len(s) THEN <<>>
    ELSE IF s[start] # "{" THEN iter_json_substrings(s, start + 1)
    ELSE LET idx == BalancedEnd(s, start, 0)
         IN  (IF idx = 0 THEN <<>> ELSE <<SubSeq(s, start, idx)>>)
                 \o iter_json_substrings(s, start + 1)

NotFound == [payload |-> None, source |-> None]

\* the loops of lines 63-66 and 68-71: the first candidate from the k-th on
\* that loads to an object, with its text
RECURSIVE FirstPayload(_, _)
FirstPayload(candidates, k) ==
    IF k > Len(candidates) THEN NotFound
    ELSE LET p == try_load_json(candidates[k])
         IN  IF p # None THEN [payload |-> p, source |-> JStr(candidates[k])]
             ELSE FirstPayload(candidates, k + 1)

\* the candidates when only the first fenced region is kept
Candidates_FirstFenceOnly(s) ==
    LET fenced == StrippedNonEmpty(JSON_CODE_BLOCK_RE(s, 1))
    IN  IF fenced = <<>> THEN <<strip(s)>> ELSE <<Head(fenced)>>

\* lines 54-61: the fenced candidates, or the stripped text when there are
\* none
Candidates(s) ==
    LET fenced == StrippedNonEmpty(JSON_CODE_BLOCK_RE(s, 1))
    IN  IF fenced = <<>> THEN <<strip(s)>> ELSE fenced

extract_json_payload(s) ==
    IF s = <<>> THEN NotFound
    ELSE LET first == FirstPayload(Candidates(s), 1)
         IN  IF first # NotFound THEN first
             ELSE FirstPayload(iter_json_substrings(s, 1), 1)

(***************************************************************************)
(* parse_trajectories.py: the result normalizer                            *)
(***************************************************************************)
InSeq(x, q) == \E i \in 1..Len(q) : q[i] = x

\* the loop of normalize_list without its seen set
RECURSIVE normalize_items_NoSeen(_, _)
normalize_items_NoSeen(items, result) ==
    IF items = <<>> THEN result
    ELSE LET item == Head(items)
             cleaned == strip(item.s)
         IN  IF item.t # "str" THEN normalize_items_NoSeen(Tail(items), result)
             ELSE IF cleaned = <<>> THEN normalize_items_NoSeen(Tail(items), result)
             ELSE normalize_items_NoSeen(Tail(items), Append(result, cleaned))

\* the loop of lines 39-46 over the items left, result being the list so
\* far (seen holds exactly its elements)
RECURSIVE normalize_items(_, _)
normalize_items(items, result) ==
    IF items = <<>> THEN result
    ELSE LET item == Head(items)
             cleaned == strip(item.s)
         IN  IF item.t # "str" THEN normalize_items(Tail(items), result)
             ELSE IF cleaned = <<>> \/ InSeq(cleaned, result)
                  THEN normalize_items(Tail(items), result)
             ELSE normalize_items(Tail(items), Append(result, cleaned))

\* normalize_list(value): a list of str, here a sequence of strings
normalize_list(v) ==
    IF ~Truthy(v) THEN <<>>
    ELSE normalize_items(IF v.t = "arr" THEN v.a ELSE <<v>>, <<>>)

\* a list of str as the Python value it is
StrList(q) == JArr([i \in 1..Len(q) |-> JStr(q[i])])

\* the loop of entities_to_modules keeping the whole qualified name, so that
\* it deduplicates by entity
RECURSIVE modules_loop_ByEntity(_, _)
modules_loop_ByEntity(entities, mods) ==
    IF entities = <<>> THEN mods
    ELSE LET entity == Head(entities)
             file_path == split_head(entity, ":")
             name == split_tail(entity, ":")
             module_id == IF name # <<>>
                          THEN file_path \o <<":">> \o name
                          ELSE file_path
         IN  IF ~Contains(entity, ":") THEN modules_loop_ByEntity(Tail(entities), mods)
             ELSE IF InSeq(module_id, mods) THEN modules_loop_ByEntity(Tail(entities), mods)
             ELSE modules_loop_ByEntity(Tail(entities), Append(mods, module_id))

\* the loop of lines 104-113 over the entities left
RECURSIVE modules_loop(_, _)
modules_loop(entities, mods) ==
    IF entities = <<>> THEN mods
    ELSE LET entity == Head(entities)
             file_path == split_head(entity, ":")
             name == split_tail(entity, ":")
             module_name == split_head(name, ".")
             module_id == IF module_name # <<>>
                          THEN file_path \o <<":">> \o module_name
                          ELSE file_path
         IN  IF ~Contains(entity, ":") THEN modules_loop(Tail(entities), mods)
             ELSE IF InSeq(module_id, mods) THEN modules_loop(Tail(entities), mods)
             ELSE modules_loop(Tail(entities), Append(mods, module_id))

entities_to_modules(found_entities) == modules_loop(found_entities, <<>>)

\* [item.split(":", 1)[0] for item in found_entities if ":" in item]
RECURSIVE EntityFiles(_)
EntityFiles(found_entities) ==
    IF found_entities = <<>> THEN <<>>
    ELSE (IF Contains(Head(found_entities), ":")
          THEN <<split_head(Head(found_entities), ":")>>
          ELSE <<>>) \o EntityFiles(Tail(found_entities))

\* the keys of the payload, as the characters json.loads hands back
K_found_files == <<"f", "o", "u", "n", "d", "_", "f", "i", "l", "e", "s">>
K_found_modules == <<"f", "o", "u", "n", "d", "_", "m", "o", "d", "u", "l", "e", "s">>
K_found_entities == <<"f", "o", "u", "n", "d", "_", "e", "n", "t", "i", "t", "i", "e", "s">>

\* found_files with the derived list left as the comprehension gives it
found_files_of_Unnormalized(p) ==
    LET own == normalize_list(Get(p, K_found_files))
        found_entities == normalize_list(Get(p, K_found_entities))
    IN  IF own = <<>> /\ found_entities # <<>>
        THEN EntityFiles(found_entities)
        ELSE own

\* lines 196-199
found_files_of(p) ==
    LET own == normalize_list(Get(p, K_found_files))
        found_entities == normalize_list(Get(p, K_found_entities))
    IN  IF own = <<>> /\ found_entities # <<>>
        THEN normalize_list(StrList(EntityFiles(found_entities)))
        ELSE own

\* line 197
found_entities_of(p) == normalize_list(Get(p, K_found_entities))

\* found_modules derived whenever there are entities, the payload's own list
\* overridden
found_modules_of_Override(p) ==
    LET own == normalize_list(Get(p, K_found_modules))
        found_entities == normalize_list(Get(p, K_found_entities))
    IN  IF found_entities # <<>>
        THEN entities_to_modules(found_entities)
        ELSE own

\* lines 200-202
found_modules_of(p) ==
    LET own == normalize_list(Get(p, K_found_modules))
        found_entities == normalize_list(Get(p, K_found_entities))
    IN  IF own = <<>> /\ found_entities # <<>>
        THEN entities_to_modules(found_entities)
        ELSE own

MetaKeys == {"repo", "base_commit", "problem_statement", "patch", "test_patch"}

\* a Benchmark Record is a function from its field names to their values
build_meta(record) == [k \in (DOMAIN record) \cap MetaKeys |-> record[k]]

\* lines 196-211: raw is None or a JStr
output_record(instance_id, p, raw, bench_record) ==
    [instance_id |-> instance_id,
     found_files |-> found_files_of(p),
     found_modules |-> found_modules_of(p),
     found_entities |-> found_entities_of(p),
     raw_output_loc |-> IF Truthy(raw) THEN <<raw.s>> ELSE <<>>,
     meta_data |-> build_meta(bench_record)]

(***************************************************************************)
(* The variables a specification does not use keep these values.           *)
(***************************************************************************)
ExtractIdle == text = <<>> /\ extracted = <<>>
NormalizeIdle == value = None /\ normalized = <<>>
ModulesIdle == entity_list = <<>> /\ modules = <<>>
TrajIdle ==
    /\ bench_data = <<>> /\ dir_files = {} /\ traj_files = <<>> /\ file_idx = 0
    /\ trajectory = <<>> /\ payload = None /\ raw_response = None /\ selected = 0
    /\ missing_payload = 0 /\ out_lines = <<>> /\ traj_pc = "idle"
PrepIdle ==
    /\ dataset = <<>> /\ filter = None /\ limit = None /\ skip_missing = FALSE
    /\ existing_dirs = {} /\ rec_idx = 0 /\ missing_repos = <<>> /\ count = 0
    /\ instances = <<>> /\ exit_code = None /\ prep_pc = "idle"

(***************************************************************************)
(* extract_json_payload applied to every text of at most MaxTokens pieces  *)
(***************************************************************************)
MaxTokens == 4

TokFence == Fence
TokTag == <<"J", "s", "o", "n", "\n">>
TokObjA == <<"{", "\"", "a", "\"", ":", "{", "}", "}">>
TokObjB == <<"{", "\"", "b", "\"", ":", "\"", "}", "\"", "}">>
TokOpen == <<"{">>
TokClose == <<"}">>
TokProse == <<"x">>
TokSpace == <<" ">>
TokFencedArray == Fence \o <<"j", "s", "o", "n", "\n", "[", "1", "]", "\n">> \o Fence
Tokens == {TokFence, TokTag, TokObjA, TokObjB, TokOpen, TokClose, TokProse,
           TokSpace, TokFencedArray}

RECURSIVE Concat(_)
Concat(q) == IF q = <<>> THEN <<>> ELSE Head(q) \o Concat(Tail(q))

Texts == {Concat(q) : q \in UNION {[1..n -> Tokens] : n \in 0..MaxTokens}}

ExtractInit ==
    /\ text \in Texts
    /\ extracted = <<>>
    /\ NormalizeIdle /\ ModulesIdle /\ TrajIdle /\ PrepIdle

\* the call extract_json_payload(text)
ExtractPayload ==
    /\ extracted = <<>>
    /\ extracted' = <<extract_json_payload(text)>>
    /\ UNCHANGED <<text, normalize_vars, modules_vars, traj_vars, prep_vars>>

ExtractNext == ExtractPayload
ExtractSpec == ExtractInit /\ [][ExtractNext]_vars

\* the inner texts of the fenced code regions of the text, in text order
FencedRegions == JSON_CODE_BLOCK_RE(text, 1)

\* the inner text strictly parses to a JSON object
ParsesToObject(s) == loads(s).ok /\ loads(s).val.t = "obj"

\* the regions that parse to an object
ObjectRegions == {k \in 1..Len(FencedRegions) : ParsesToObject(FencedRegions[k])}

CountChar(s, c, i, j) == Cardinality({k \in i..j : s[k] = c})

\* the positions after start i at which the nesting depth is back to zero
ZeroDepthEnds(s, i) ==
    {j \in i..Len(s) : CountChar(s, "{", i, j) = CountChar(s, "}", i, j)}

\* the starts of the brace scan that have a candidate parsing to an object
ObjectStarts(s) ==
    {i \in 1..Len(s) :
        /\ s[i] = "{"
        /\ ZeroDepthEnds(s, i) # {}
        /\ LET e == CHOOSE e \in ZeroDepthEnds(s, i) : \A j \in ZeroDepthEnds(s, i) : e <= j
           IN  ParsesToObject(SubSeq(s, i, e))}

\* neither the fenced regions nor, when there is none, the whole text give
\* an object
NoTierOneOrTwo ==
    /\ ObjectRegions = {}
    /\ (\A k \in 1..Len(FencedRegions) : strip(FencedRegions[k]) = <<>>)
           => ~ParsesToObject(text)

\* C3: when the first two tiers give nothing, extract returns the candidate
\* of the least '{' position whose text up to the first return of the depth
\* to zero parses to an object, and it returns absent with no matched source
\* when there is no such position
C3_BraceScan ==
    (extracted # <<>> /\ NoTierOneOrTwo) =>
        IF ObjectStarts(text) = {}
        THEN extracted[1].payload = None /\ extracted[1].source = None
        ELSE LET i == CHOOSE i \in ObjectStarts(text) : \A j \in ObjectStarts(text) : i <= j
                 e == CHOOSE e \in ZeroDepthEnds(text, i) : \A j \in ZeroDepthEnds(text, i) : e <= j
             IN  /\ extracted[1].source = JStr(SubSeq(text, i, e))
                 /\ extracted[1].payload = loads(SubSeq(text, i, e)).val

\* an unclosed start, a start whose candidate does not parse, and the nested
\* object recovered from the third start
C3_Witness ==
    /\ extracted # <<>>
    /\ NoTierOneOrTwo
    /\ text = TokOpen \o TokOpen \o TokObjA \o TokClose
    /\ ZeroDepthEnds(text, 1) = {}
    /\ extracted[1].source = JStr(TokObjA)

(***************************************************************************)
(* The strings the normalizer is applied to                                *)
(***************************************************************************)
E_bar == <<"a", "/", "b", ".", "p", "y", ":", "F", "o", "o", ".", "b", "a", "r">>
E_baz == <<"a", "/", "b", ".", "p", "y", ":", "F", "o", "o", ".", "b", "a", "z">>
E_qux == <<"c", "/", "d", ".", "p", "y", ":", "Q", "u", "x">>
E_plain == <<"F", "o", "o">>
E_nomod == <<"a", "/", "b", ".", "p", "y", ":">>
E_dotfirst == <<"a", "/", "b", ".", "p", "y", ":", ".", "x">>
E_colon2 == <<"a", "/", "b", ".", "p", "y", ":", "F", "o", "o", ":", "x", ".", "y">>
E_bar_untrimmed == <<" ", "a", "/", "b", ".", "p", "y", ":", "F", "o", "o", ".", "b", "a", "r", "\n">>
E_spacepath == <<"a", "/", "b", ".", "p", "y", " ", ":", "F", "o", "o">>
E_blank == <<" ">>
E_empty == <<>>
F_ab == <<"a", "/", "b", ".", "p", "y">>
F_ab_untrimmed == <<"\n", "a", "/", "b", ".", "p", "y", " ">>
F_cd == <<"c", "/", "d", ".", "p", "y">>
M_ab_Foo == <<"a", "/", "b", ".", "p", "y", ":", "F", "o", "o">>
M_cd_Qux == <<"c", "/", "d", ".", "p", "y", ":", "Q", "u", "x">>

MaxItems == 3

SeqsUpTo(S, n) == UNION {[1..k -> S] : k \in 0..n}

(***************************************************************************)
(* normalize_list applied to a value, and again to its own result          *)
(***************************************************************************)
NormalizeElems ==
    {JStr(E_bar), JStr(E_bar_untrimmed), JStr(E_plain), JStr(E_blank), JStr(E_empty),
     JNum(<<"1">>), None, JArr(<<JStr(E_plain)>>)}

NormalizeValues ==
    {JArr(q) : q \in SeqsUpTo(NormalizeElems, MaxItems)}
        \cup {None, JStr(E_empty), JStr(E_blank), JStr(E_bar_untrimmed), JStr(E_plain),
              JNum(<<"0">>), JNum(<<"1">>), JBool(FALSE), JBool(TRUE),
              JObj(<<>>), JObj(K_found_files :> JStr(E_plain))}

NormalizeInit ==
    /\ value \in NormalizeValues
    /\ normalized = <<>>
    /\ ExtractIdle /\ ModulesIdle /\ TrajIdle /\ PrepIdle

\* normalize_list(value), then normalize_list of what that returned
NormalizeList ==
    /\ Len(normalized) < 2
    /\ normalized' = Append(normalized,
            normalize_list(IF normalized = <<>> THEN value
                           ELSE StrList(normalized[Len(normalized)])))
    /\ UNCHANGED <<value, extract_vars, modules_vars, traj_vars, prep_vars>>

NormalizeNext == NormalizeList
NormalizeSpec == NormalizeInit /\ [][NormalizeNext]_vars

\* a sequence without a repeated element
NoDuplicates(q) == \A i, j \in 1..Len(q) : q[i] = q[j] => i = j

\* the least index of src holding x
FirstIndex(x, src) == CHOOSE i \in 1..Len(src) : src[i] = x /\ \A j \in 1..(i - 1) : src[j] # x

\* q holds elements of src only, in the order of their first occurrence there
FirstSeenOrder(q, src) ==
    /\ \A i \in 1..Len(q) : InSeq(q[i], src)
    /\ \A i, j \in 1..Len(q) : i < j => FirstIndex(q[i], src) < FirstIndex(q[j], src)

\* a string with no whitespace at either end, and not empty
Trimmed(s) == s # <<>> /\ s[1] \notin Whitespace /\ s[Len(s)] \notin Whitespace

\* the string elements of a value: of a list its strings, of a single string
\* itself, of anything else and of an empty value none
StringItems(v) ==
    IF v.t = "str" /\ v.s # <<>> THEN <<v.s>>
    ELSE IF v.t = "arr"
         THEN LET strs == SelectSeq(v.a, LAMBDA e : e.t = "str")
              IN  [i \in 1..Len(strs) |-> strs[i].s]
    ELSE <<>>

\* the strings of v, each trimmed
TrimmedItems(v) == [i \in 1..Len(StringItems(v)) |-> strip(StringItems(v)[i])]

\* C10: normalizeList is idempotent, and its result holds exactly the
\* trimmed, non-empty strings of its input, each once, in the order of first
\* occurrence, the non-string elements dropped
C10_NormalizeIdempotent ==
    /\ Len(normalized) = 2 => normalized[2] = normalized[1]
    /\ Len(normalized) >= 1 =>
        LET r == normalized[1]
        IN  /\ \A i \in 1..Len(r) : Trimmed(r[i])
            /\ NoDuplicates(r)
            /\ FirstSeenOrder(r, TrimmedItems(value))
            /\ \A i \in 1..Len(TrimmedItems(value)) :
                   TrimmedItems(value)[i] # <<>> => InSeq(TrimmedItems(value)[i], r)

\* a list with a non-string, an untrimmed duplicate and a blank string,
\* normalized twice
C10_Witness ==
    /\ value = JArr(<<JNum(<<"1">>), JStr(E_bar_untrimmed), JStr(E_bar)>>)
    /\ Len(normalized) = 2
    /\ normalized[2] = <<E_bar>>

(***************************************************************************)
(* entities_to_modules applied to a list of entity strings                 *)
(***************************************************************************)
ModuleEntities == {E_bar, E_baz, E_qux, E_plain, E_nomod, E_dotfirst, E_colon2}

ModulesInit ==
    /\ entity_list \in SeqsUpTo(ModuleEntities, MaxItems)
    /\ modules = <<>>
    /\ ExtractIdle /\ NormalizeIdle /\ TrajIdle /\ PrepIdle

\* the call entities_to_modules(entity_list)
EntitiesToModules ==
    /\ modules = <<>>
    /\ modules' = <<entities_to_modules(entity_list)>>
    /\ UNCHANGED <<entity_list, extract_vars, normalize_vars, traj_vars, prep_vars>>

ModulesNext == EntitiesToModules
ModulesSpec == ModulesInit /\ [][ModulesNext]_vars

\* the least index of s holding c; Len(s) + 1 when it holds none
FirstAt(s, c) ==
    IF \E i \in 1..Len(s) : s[i] = c
    THEN CHOOSE i \in 1..Len(s) : s[i] = c /\ \A j \in 1..(i - 1) : s[j] # c
    ELSE Len(s) + 1

HasColon(e) == \E i \in 1..Len(e) : e[i] = ":"

\* the identifier an entity holding ':' contributes: filePath:moduleName, the
\* entity cut at the first '.' after its first ':', or filePath alone when
\* moduleName is empty
ModuleIdOf(e) ==
    LET filePath == SubSeq(e, 1, FirstAt(e, ":") - 1)
        qualifiedName == SubSeq(e, FirstAt(e, ":") + 1, Len(e))
        moduleName == SubSeq(qualifiedName, 1, FirstAt(qualifiedName, ".") - 1)
    IN  IF moduleName # <<>> THEN filePath \o <<":">> \o moduleName ELSE filePath

\* the identifiers of the entities of q that hold ':', in order
ModuleIds(q) ==
    LET with == SelectSeq(q, HasColon)
    IN  [i \in 1..Len(with) |-> ModuleIdOf(with[i])]

\* C9: deriveModules gives the identifiers of the entities that hold ':',
\* each once, in order of first occurrence; entities without ':' give
\* nothing
C9_DeriveModules ==
    modules # <<>> =>
        /\ NoDuplicates(modules[1])
        /\ FirstSeenOrder(modules[1], ModuleIds(entity_list))
        /\ \A i \in 1..Len(ModuleIds(entity_list)) : InSeq(ModuleIds(entity_list)[i], modules[1])

\* a/b.py:Foo.bar, a/b.py:Foo.baz, c/d.py:Qux gives a/b.py:Foo, c/d.py:Qux
C9_Witness ==
    /\ entity_list = <<E_bar, E_baz, E_qux>>
    /\ modules = <<(<<M_ab_Foo, M_cd_Qux>>)>>

(***************************************************************************)
(* parse_trajectories.main, lines 196-212, applied to a payload            *)
(***************************************************************************)
E_spacepath_module == E_spacepath

\* a key the payload does not hold
Absent == [t |-> "absent"]

PayloadOf(files, mods, entities) ==
    JObj((IF files = Absent THEN <<>> ELSE K_found_files :> files)
         @@ (IF mods = Absent THEN <<>> ELSE K_found_modules :> mods)
         @@ (IF entities = Absent THEN <<>> ELSE K_found_entities :> entities))

FileValues ==
    {Absent, JArr(<<>>), JArr(<<JStr(F_cd)>>), JArr(<<JStr(E_blank), JNum(<<"1">>)>>),
     JStr(F_ab_untrimmed),
     JArr(<<JStr(F_cd), JStr(F_ab_untrimmed), JStr(F_cd), JStr(F_ab)>>)}

ModuleValues ==
    {Absent, None, JArr(<<JStr(M_cd_Qux)>>), JArr(<<JStr(E_blank)>>),
     JArr(<<JStr(M_cd_Qux), JStr(M_ab_Foo), JStr(M_cd_Qux)>>)}

EntityElems ==
    {JStr(E_bar), JStr(E_baz), JStr(E_bar_untrimmed), JStr(E_plain), JStr(E_spacepath),
     JNum(<<"1">>)}

EntityValues ==
    {JArr(q) : q \in SeqsUpTo(EntityElems, MaxItems)} \cup {Absent, JStr(E_bar)}

Payloads ==
    {PayloadOf(f, m, e) : f \in FileValues, m \in ModuleValues, e \in EntityValues}

BenchA == [instance_id |-> "i1", repo |-> "org/r1", base_commit |-> "c1", hints |-> "h"]
BenchA2 == [instance_id |-> "i1", repo |-> "org/r9", patch |-> "p"]
BenchB == [instance_id |-> "i2", repo |-> "org/r2"]

RecordInit ==
    /\ payload \in Payloads
    /\ bench_data = ("i1" :> BenchA)
    /\ dir_files = {} /\ traj_files = <<>> /\ file_idx = 0
    /\ trajectory = <<>> /\ raw_response = None /\ selected = 0
    /\ missing_payload = 0 /\ out_lines = <<>> /\ traj_pc = "normalize"
    /\ ExtractIdle /\ NormalizeIdle /\ ModulesIdle /\ PrepIdle

\* lines 196-212 for the payload at hand
WriteRecord ==
    /\ traj_pc = "normalize"
    /\ out_lines' = Append(out_lines,
            output_record("i1", payload, raw_response, bench_data["i1"]))
    /\ traj_pc' = "written"
    /\ UNCHANGED <<bench_data, dir_files, traj_files, file_idx, trajectory, payload,
                   raw_response, selected, missing_payload>>
    /\ UNCHANGED <<extract_vars, normalize_vars, modules_vars, prep_vars>>

RecordNext == WriteRecord
RecordSpec == RecordInit /\ [][RecordNext]_vars

\* the payload's own lists, normalized
OwnFiles == normalize_list(Get(payload, K_found_files))
OwnModules == normalize_list(Get(payload, K_found_modules))
OwnEntities == normalize_list(Get(payload, K_found_entities))

\* of each entity holding ':', in order, the text before its first ':'
ColonPrefixes(q) ==
    LET with == SelectSeq(q, HasColon)
    IN  [i \in 1..Len(with) |-> SubSeq(with[i], 1, FirstAt(with[i], ":") - 1)]

\* C8: found_entities is the normalized payload list; found_files and
\* found_modules are the normalized payload lists when those are not empty,
\* and otherwise the normalized prefixes before the first ':' of the
\* entities, and deriveModules of the entities
C8_FieldDerivation ==
    traj_pc = "written" =>
        LET rec == out_lines[Len(out_lines)]
        IN  /\ rec.found_entities = OwnEntities
            /\ rec.found_files =
                   IF OwnFiles # <<>> THEN OwnFiles
                   ELSE normalize_list(StrList(ColonPrefixes(OwnEntities)))
            /\ rec.found_modules =
                   IF OwnModules # <<>> THEN OwnModules
                   ELSE entities_to_modules(OwnEntities)

\* the payload gives modules and entities but no files: the files are derived
\* and the modules are the payload's own
C8_Witness ==
    /\ traj_pc = "written"
    /\ payload = PayloadOf(Absent, JArr(<<JStr(M_cd_Qux)>>),
                           JArr(<<JStr(E_bar), JStr(E_plain), JStr(E_baz)>>))
    /\ out_lines[1].found_files = <<F_ab>>
    /\ out_lines[1].found_modules = <<M_cd_Qux>>
    /\ out_lines[1].found_entities = <<E_bar, E_plain, E_baz>>

\* the list each field came from, before duplicates are dropped
FilesSource ==
    IF OwnFiles # <<>> THEN TrimmedItems(Get(payload, K_found_files))
    ELSE [i \in 1..Len(ColonPrefixes(OwnEntities)) |-> strip(ColonPrefixes(OwnEntities)[i])]
ModulesSource ==
    IF OwnModules # <<>> THEN TrimmedItems(Get(payload, K_found_modules))
    ELSE ModuleIds(OwnEntities)
EntitiesSource == TrimmedItems(Get(payload, K_found_entities))

\* C7: found_files, found_modules and found_entities hold no duplicate and
\* keep the first-seen order of the list they came from, taken from the
\* payload or derived
C7_NoDuplicates ==
    traj_pc = "written" =>
        LET rec == out_lines[Len(out_lines)]
        IN  /\ NoDuplicates(rec.found_files)
            /\ NoDuplicates(rec.found_modules)
            /\ NoDuplicates(rec.found_entities)
            /\ FirstSeenOrder(rec.found_files, FilesSource)
            /\ FirstSeenOrder(rec.found_modules, ModulesSource)
            /\ FirstSeenOrder(rec.found_entities, EntitiesSource)

\* files and modules derived from entities that repeat a file and a module
C7_Witness ==
    /\ traj_pc = "written"
    /\ payload = PayloadOf(Absent, Absent,
                           JArr(<<JStr(E_bar), JStr(E_spacepath), JStr(E_baz)>>))
    /\ out_lines[1].found_files = <<F_ab>>
    /\ out_lines[1].found_modules = <<M_ab_Foo, E_spacepath_module>>

(***************************************************************************)
(* parse_trajectories.main over the .traj files of a directory             *)
(***************************************************************************)
R_prose ==
    <<"d", "o", "n", "e">>
R_fenced ==
    <<Backquote, Backquote, Backquote, "j", "s", "o", "n", "\n", "{", "\"", "f",
    "o", "u", "n", "d", "_", "f", "i", "l", "e", "s", "\"", ":", "[", "\"", "a",
    "/", "b", ".", "p", "y", "\"", "]", "}", "\n", Backquote, Backquote,
    Backquote>>
R_entities ==
    <<"o", "k", " ", "{", "\"", "f", "o", "u", "n", "d", "_", "e", "n", "t",
    "i", "t", "i", "e", "s", "\"", ":", "[", "\"", "a", "/", "b", ".", "p", "y",
    ":", "F", "o", "o", ".", "b", "a", "r", "\"", ",", "\"", "c", "/", "d", ".",
    "p", "y", ":", "Q", "u", "x", "\"", "]", "}">>
R_empty_object ==
    <<"{", "}">>

\* a step is the value of its "response" field, None when it has none
StepResponses == {None, JStr(R_prose), JStr(R_fenced), JStr(R_entities), JStr(R_empty_object)}

\* step.get("response") or ""
response_of(step) == IF Truthy(step) THEN step.s ELSE <<>>

\* the scan when only the last step is examined
scan_reversed_LastOnly(traj, i) ==
    IF i = 0 THEN 0
    ELSE IF extract_json_payload(response_of(traj[i])).payload # None THEN i
    ELSE 0

\* the loop of lines 183-189 from step i down: the index of the step it
\* breaks at, 0 when it runs out
RECURSIVE scan_reversed(_, _)
scan_reversed(traj, i) ==
    IF i = 0 THEN 0
    ELSE IF extract_json_payload(response_of(traj[i])).payload # None THEN i
    ELSE scan_reversed(traj, i - 1)


\* a path under traj_dir is the sequence of its components; NameRank is the
\* place of a component in the order of str
FileNames == {"i1.traj", "i2.traj", "sub", "zz.traj"}
NameRank(n) ==
    CASE n = "i1.traj" -> 1
      [] n = "i2.traj" -> 2
      [] n = "sub" -> 3
      [] n = "zz.traj" -> 4

\* Path.stem of a .traj file
stem(path) ==
    LET n == path[Len(path)]
    IN  CASE n = "i1.traj" -> "i1"
          [] n = "i2.traj" -> "i2"
          [] n = "zz.traj" -> "zz"

TrajPaths == {<<"i1.traj">>, <<"i2.traj">>, <<"sub", "i1.traj">>, <<"zz.traj">>}

\* Path.__lt__: the component lists compared as Python compares lists
RECURSIVE PathLess(_, _)
PathLess(p, q) ==
    IF q = <<>> THEN FALSE
    ELSE IF p = <<>> THEN TRUE
    ELSE IF Head(p) # Head(q) THEN NameRank(Head(p)) < NameRank(Head(q))
    ELSE PathLess(Tail(p), Tail(q))

\* sorted(files): the least path first
RECURSIVE sorted(_)
sorted(files) ==
    IF files = {} THEN <<>>
    ELSE LET first == CHOOSE f \in files : \A g \in files : ~PathLess(g.path, f.path)
         IN  <<first>> \o sorted(files \ {first})

\* bench_data of line 160: the last record of an instance_id wins
RECURSIVE to_bench_data(_)
to_bench_data(records) ==
    IF records = <<>> THEN <<>>
    ELSE LET last == records[Len(records)]
         IN  (last.instance_id :> last) @@ to_bench_data(SubSeq(records, 1, Len(records) - 1))

BenchDatasets == {<<BenchA>>, <<BenchA, BenchB>>, <<BenchA, BenchA2>>}

\* what a .traj file holds: whether its text is JSON at all, and the steps
\* of its "trajectory"
TrajContents(trajectories) ==
    [valid_json : {TRUE}, steps : trajectories] \cup {[valid_json |-> FALSE, steps |-> <<>>]}

\* the directories of at most n .traj files with the given trajectories
Directories(n, trajectories) ==
    UNION {{{[path |-> p, valid_json |-> c[p].valid_json, steps |-> c[p].steps] : p \in P} :
                c \in [P -> TrajContents(trajectories)]} :
           P \in {Q \in SUBSET TrajPaths : Cardinality(Q) <= n}}

\* the state as main starts
TrajStart(dirs) ==
    /\ bench_data \in {to_bench_data(ds) : ds \in BenchDatasets}
    /\ dir_files \in dirs
    /\ traj_files = <<>> /\ file_idx = 0
    /\ trajectory = <<>> /\ payload = None /\ raw_response = None /\ selected = 0
    /\ missing_payload = 0 /\ out_lines = <<>> /\ traj_pc = "start"
    /\ ExtractIdle /\ NormalizeIdle /\ ModulesIdle /\ PrepIdle

TrajUnchanged == UNCHANGED <<extract_vars, normalize_vars, modules_vars, prep_vars>>

\* lines 161-164: no .traj file, exit code 3
NoTrajFiles ==
    /\ traj_pc = "start"
    /\ sorted(dir_files) = <<>>
    /\ traj_pc' = "exit3"
    /\ UNCHANGED <<bench_data, dir_files, traj_files, file_idx, trajectory, payload,
                   raw_response, selected, missing_payload, out_lines>>
    /\ TrajUnchanged

\* lines 161-169: the files in sorted order, the output opened
ListFiles ==
    /\ traj_pc = "start"
    /\ sorted(dir_files) # <<>>
    /\ traj_files' = sorted(dir_files)
    /\ file_idx' = 1
    /\ traj_pc' = "loop"
    /\ UNCHANGED <<bench_data, dir_files, trajectory, payload, raw_response, selected,
                   missing_payload, out_lines>>
    /\ TrajUnchanged

\* lines 171-173: no Benchmark Record of that stem
SkipUnknown ==
    /\ traj_pc = "loop" /\ file_idx <= Len(traj_files)
    /\ stem(traj_files[file_idx].path) \notin DOMAIN bench_data
    /\ file_idx' = file_idx + 1
    /\ UNCHANGED <<bench_data, dir_files, traj_files, trajectory, payload, raw_response,
                   selected, missing_payload, out_lines, traj_pc>>
    /\ TrajUnchanged

\* a file that is not JSON ending the run instead of being skipped
SkipInvalid_Abort ==
    /\ traj_pc = "loop" /\ file_idx <= Len(traj_files)
    /\ stem(traj_files[file_idx].path) \in DOMAIN bench_data
    /\ ~traj_files[file_idx].valid_json
    /\ traj_pc' = "done"
    /\ UNCHANGED <<bench_data, dir_files, traj_files, file_idx, trajectory, payload,
                   raw_response, selected, missing_payload, out_lines>>
    /\ TrajUnchanged

\* lines 174-178: the file is not JSON
SkipInvalid ==
    /\ traj_pc = "loop" /\ file_idx <= Len(traj_files)
    /\ stem(traj_files[file_idx].path) \in DOMAIN bench_data
    /\ ~traj_files[file_idx].valid_json
    /\ file_idx' = file_idx + 1
    /\ UNCHANGED <<bench_data, dir_files, traj_files, trajectory, payload, raw_response,
                   selected, missing_payload, out_lines, traj_pc>>
    /\ TrajUnchanged

\* lines 180-212: one transcript converted and its record written
ConvertFile ==
    /\ traj_pc = "loop" /\ file_idx <= Len(traj_files)
    /\ stem(traj_files[file_idx].path) \in DOMAIN bench_data
    /\ traj_files[file_idx].valid_json
    /\ trajectory' = traj_files[file_idx].steps
    /\ selected' = scan_reversed(trajectory', Len(trajectory'))
    /\ payload' = IF selected' # 0
                  THEN extract_json_payload(response_of(trajectory'[selected'])).payload
                  ELSE JObj(<<>>)
    /\ raw_response' = IF selected' # 0 THEN JStr(response_of(trajectory'[selected']))
                       ELSE IF trajectory' # <<>> THEN trajectory'[Len(trajectory')]
                       ELSE JStr(<<>>)
    /\ missing_payload' = IF selected' = 0 THEN missing_payload + 1 ELSE missing_payload
    /\ out_lines' = Append(out_lines,
           output_record(stem(traj_files[file_idx].path), payload', raw_response',
                         bench_data[stem(traj_files[file_idx].path)]))
    /\ file_idx' = file_idx + 1
    /\ UNCHANGED <<bench_data, dir_files, traj_files, traj_pc>>
    /\ TrajUnchanged

\* lines 214-218: every file seen, exit code 0
FinishFiles ==
    /\ traj_pc = "loop" /\ file_idx > Len(traj_files)
    /\ traj_pc' = "done"
    /\ UNCHANGED <<bench_data, dir_files, traj_files, file_idx, trajectory, payload,
                   raw_response, selected, missing_payload, out_lines>>
    /\ TrajUnchanged

TrajNext ==
    \/ NoTrajFiles
    \/ ListFiles
    \/ SkipUnknown
    \/ SkipInvalid
    \/ ConvertFile
    \/ FinishFiles

(***************************************************************************)
(* One transcript of at most MaxSteps steps                                *)
(***************************************************************************)
MaxSteps == 3

TranscriptInit == TrajStart(Directories(1, SeqsUpTo(StepResponses, MaxSteps)))
TranscriptSpec == TranscriptInit /\ [][TrajNext]_vars

\* the steps of the transcript whose response yields a payload
YieldingSteps ==
    {i \in 1..Len(trajectory) :
        extract_json_payload(response_of(trajectory[i])).payload # None}

\* the record written last
LastRecord == out_lines[Len(out_lines)]

\* C1: the payload is that of the highest-index step whose response yields
\* one: when any step yields a payload the record is built from that step
\* alone and is not the empty-result fallback
C1_LastYieldingStep ==
    (out_lines # <<>> /\ YieldingSteps # {}) =>
        LET k == CHOOSE k \in YieldingSteps : \A j \in YieldingSteps : j <= k
            found == extract_json_payload(response_of(trajectory[k]))
        IN  /\ selected = k
            /\ payload = found.payload
            /\ raw_response = JStr(response_of(trajectory[k]))
            /\ missing_payload = 0
            /\ LastRecord = output_record(LastRecord.instance_id, found.payload,
                                          JStr(response_of(trajectory[k])),
                                          bench_data[LastRecord.instance_id])

\* steps = [valid JSON, prose, prose]: the payload of step 0 is found
C1_Witness ==
    /\ traj_pc = "done"
    /\ trajectory = <<JStr(R_fenced), JStr(R_prose), JStr(R_prose)>>
    /\ selected = 1
    /\ missing_payload = 0
    /\ LastRecord.found_files = <<F_ab>>
    /\ LastRecord.raw_output_loc = <<R_fenced>>

(***************************************************************************)
(* A directory of at most MaxFiles transcripts                             *)
(***************************************************************************)
MaxFiles == 2

FileTrajectories ==
    {<<>>, <<None>>, <<JStr(R_prose)>>, <<JStr(R_entities), JStr(R_prose)>>}

ConvertInit == TrajStart(Directories(MaxFiles, FileTrajectories))
ConvertSpec == ConvertInit /\ [][TrajNext]_vars

\* the files seen so far that have a Benchmark Record and are well formed
Converted ==
    SelectSeq(SubSeq(traj_files, 1, file_idx - 1),
              LAMBDA f : stem(f.path) \in DOMAIN bench_data /\ f.valid_json)

MaxRecords == 3

\* record.get(key) of a Benchmark Record: None for a key it does not hold
Rec(id, repo, base) == [instance_id |-> id, repo |-> repo, base_commit |-> base]

DatasetRecords ==
    {Rec(JStr(<<"a", "1">>), JStr(<<"o", "/", "r", "1">>), JStr(<<"c", "1">>)),
     Rec(JStr(<<"b", "1">>), JStr(<<"o", "/", "r", "2">>), None),
     Rec(JStr(<<"a", "2">>), JStr(<<"o", "/", "r", "2">>), JStr(<<>>)),
     Rec(JStr(<<>>), JStr(<<"o", "/", "r", "1">>), None),
     Rec(JStr(<<"b", "2">>), None, None)}

\* --filter: none, the empty pattern, or a literal
Filters == {None, JStr(<<>>), JStr(<<"a">>)}

\* --limit: none or an int
Limits == {None} \cup {JNum(<<"0">>), JNum(<<"1">>), JNum(<<"2">>)}

\* the directories under repo_root
MirrorDirs == {<<"o", "_", "r", "1">>, <<"o", "_", "r", "2">>}

\* int(s) of a one-digit numeral
IntOf(n) ==
    CASE n.n = <<"0">> -> 0
      [] n.n = <<"1">> -> 1
      [] n.n = <<"2">> -> 2

\* regex.search(instance_id) for a pattern of literal characters
search(pattern, s) == \E i \in 1..(Len(s) + 1) : StartsWith(s, i, pattern)

\* build_repo_path: the name of the directory under repo_root
build_repo_path(repo_slug) == replace(repo_slug, "/", "_")

\* line 88: regex is None for no filter and for the empty one
regex == IF Truthy(filter) THEN filter ELSE None

PrepInit ==
    /\ dataset \in SeqsUpTo(DatasetRecords, MaxRecords)
    /\ filter \in Filters
    /\ limit \in Limits
    /\ skip_missing \in BOOLEAN
    /\ existing_dirs \in SUBSET MirrorDirs
    /\ rec_idx = 0 /\ missing_repos = <<>> /\ count = 0 /\ instances = <<>>
    /\ exit_code = None /\ prep_pc = "loop"
    /\ ExtractIdle /\ NormalizeIdle /\ ModulesIdle /\ TrajIdle

PrepInputs == <<dataset, filter, limit, skip_missing, existing_dirs>>
PrepUnchanged == UNCHANGED <<extract_vars, normalize_vars, modules_vars, traj_vars>>

\* the record the loop of line 94 reads next
record == dataset[rec_idx + 1]
HasNext == prep_pc = "loop" /\ rec_idx < Len(dataset)

\* lines 95-97
SkipNoId ==
    /\ HasNext
    /\ ~Truthy(record.instance_id)
    /\ rec_idx' = rec_idx + 1
    /\ UNCHANGED <<PrepInputs, missing_repos, count, instances, exit_code, prep_pc>>
    /\ PrepUnchanged

\* lines 98-99
SkipFiltered ==
    /\ HasNext
    /\ Truthy(record.instance_id)
    /\ regex # None /\ ~search(regex.s, record.instance_id.s)
    /\ rec_idx' = rec_idx + 1
    /\ UNCHANGED <<PrepInputs, missing_repos, count, instances, exit_code, prep_pc>>
    /\ PrepUnchanged

\* the record passed lines 95-99
Passed ==
    /\ HasNext
    /\ Truthy(record.instance_id)
    /\ IF regex = None THEN TRUE ELSE search(regex.s, record.instance_id.s)

\* lines 101-103
SkipNoRepo ==
    /\ Passed
    /\ ~Truthy(record.repo)
    /\ rec_idx' = rec_idx + 1
    /\ UNCHANGED <<PrepInputs, missing_repos, count, instances, exit_code, prep_pc>>
    /\ PrepUnchanged

\* lines 105-107
SkipMissing ==
    /\ Passed
    /\ Truthy(record.repo)
    /\ build_repo_path(record.repo.s) \notin existing_dirs
    /\ skip_missing
    /\ rec_idx' = rec_idx + 1
    /\ UNCHANGED <<PrepInputs, missing_repos, count, instances, exit_code, prep_pc>>
    /\ PrepUnchanged

\* a missing mirror ending the scan at once instead of being recorded and
\* passed
RecordMissing_FailFast ==
    /\ Passed
    /\ Truthy(record.repo)
    /\ build_repo_path(record.repo.s) \notin existing_dirs
    /\ ~skip_missing
    /\ missing_repos' = Append(missing_repos, record.repo.s)
    /\ rec_idx' = rec_idx + 1
    /\ prep_pc' = "after"
    /\ UNCHANGED <<PrepInputs, count, instances, exit_code>>
    /\ PrepUnchanged

\* lines 105-109
RecordMissing ==
    /\ Passed
    /\ Truthy(record.repo)
    /\ build_repo_path(record.repo.s) \notin existing_dirs
    /\ ~skip_missing
    /\ missing_repos' = Append(missing_repos, record.repo.s)
    /\ rec_idx' = rec_idx + 1
    /\ UNCHANGED <<PrepInputs, count, instances, exit_code, prep_pc>>
    /\ PrepUnchanged

\* line 128: the limit is reached by a count of c
LimitReached(c) == Truthy(limit) /\ c >= IntOf(limit)

\* lines 111-129: the instance written, and the loop left at the limit
EmitInstance ==
    /\ Passed
    /\ Truthy(record.repo)
    /\ build_repo_path(record.repo.s) \in existing_dirs
    /\ instances' = Append(instances,
            [instance_id |-> record.instance_id.s,
             repo_name |-> build_repo_path(record.repo.s),
             base_commit |-> IF Truthy(record.base_commit) THEN record.base_commit.s
                             ELSE <<"H", "E", "A", "D">>,
             repo_slug |-> record.repo.s])
    /\ count' = count + 1
    /\ rec_idx' = rec_idx + 1
    /\ prep_pc' = IF LimitReached(count') THEN "after" ELSE "loop"
    /\ UNCHANGED <<PrepInputs, missing_repos, exit_code>>
    /\ PrepUnchanged

\* the dataset is read through
EndOfDataset ==
    /\ prep_pc = "loop" /\ rec_idx = Len(dataset)
    /\ prep_pc' = "after"
    /\ UNCHANGED <<PrepInputs, rec_idx, missing_repos, count, instances, exit_code>>
    /\ PrepUnchanged

\* lines 131-138
ReturnMissing ==
    /\ prep_pc = "after"
    /\ missing_repos # <<>> /\ ~skip_missing
    /\ exit_code' = 3
    /\ prep_pc' = "done"
    /\ UNCHANGED <<PrepInputs, rec_idx, missing_repos, count, instances>>
    /\ PrepUnchanged

\* lines 131-141
ReturnOk ==
    /\ prep_pc = "after"
    /\ ~(missing_repos # <<>> /\ ~skip_missing)
    /\ exit_code' = 0
    /\ prep_pc' = "done"
    /\ UNCHANGED <<PrepInputs, rec_idx, missing_repos, count, instances>>
    /\ PrepUnchanged

PrepNext ==
    \/ SkipNoId
    \/ SkipFiltered
    \/ SkipNoRepo
    \/ SkipMissing
    \/ RecordMissing
    \/ EmitInstance
    \/ EndOfDataset
    \/ ReturnMissing
    \/ ReturnOk

PrepSpec == PrepInit /\ [][PrepNext]_vars

\* the record has a non-empty instance_id that passes the filter, and a repo
Eligible(r) ==
    /\ r.instance_id.t = "str" /\ r.instance_id.s # <<>>
    /\ (filter.t = "str" /\ filter.s # <<>>) =>
           \E i \in 1..Len(r.instance_id.s) : StartsWith(r.instance_id.s, i, filter.s)
    /\ r.repo.t = "str" /\ r.repo.s # <<>>

\* the mirror directory of a slug: every '/' of it replaced by '_'
MirrorOf(slug) == [i \in 1..Len(slug) |-> IF slug[i] = "/" THEN "_" ELSE slug[i]]

\* the record references a mirror that does not exist
MissingMirror(r) == Eligible(r) /\ MirrorOf(r.repo.s) \notin existing_dirs

\* the record survives: its mirror exists
Surviving(r) == Eligible(r) /\ MirrorOf(r.repo.s) \in existing_dirs

\* the slugs of the records of q that reference a missing mirror, in order
MissingSlugs(q) ==
    LET miss == SelectSeq(q, MissingMirror)
    IN  [i \in 1..Len(miss) |-> miss[i].repo.s]

Min(a, b) == IF a <= b THEN a ELSE b

\* C5: one instance per surviving record, in dataset order, each with a
\* mirror that exists; with a limit L their number is the smaller of L and
\* the number of surviving records
C5_AsStated ==
    prep_pc = "done" =>
        LET surviving == SelectSeq(dataset, Surviving)
            n == IF limit.t = "num" THEN Min(IntOf(limit), Len(surviving))
                 ELSE Len(surviving)
        IN  /\ Len(instances) = n
            /\ count = n
            /\ \A i \in 1..Len(instances) :
                   /\ i <= Len(surviving)
                   /\ instances[i].instance_id = surviving[i].instance_id.s
                   /\ instances[i].repo_name \in existing_dirs

====
